---------------------------- MODULE Spec2Model ----------------------------
(***************************************************************************)
(* A model of cups-airprint: airprint-generate.py (the TXT-record          *)
(* normalizer, the CUPS collector, the service-file emitter and main) and  *)
(* avahi-search.py (the DNS-SD discovery loop of AvahiPrinterFinder).      *)
(*                                                                         *)
(* Python str values are sequences of code points.  An ASCII code point is *)
(* the one-character string itself; the three non-ASCII code points used   *)
(* are named "U+00E9", "U+20AC" and "U+1F600" (2, 3 and 4 UTF-8 bytes).    *)
(* Python bytes values are sequences of <<code point, k>>: the k-th byte   *)
(* of that code point's UTF-8 encoding.                                    *)
(*                                                                         *)
(* A Python call that may raise is an operator whose value is Ok(v) or     *)
(* Raise(e).                                                               *)
(***************************************************************************)
EXTENDS Integers, Sequences, FiniteSets, TLC

VARIABLES
    \* _validate_txt_record under test
    txt_pc, txt_key, txt_value, txt_ret,
    \* _process_printer_formats under test
    fmt_pc, fmt_attrs, fmt_ret,
    \* _get_printer_capabilities under test
    cap_pc, cap_attrs, cap_ret,
    \* AvahiPrinterFinder: its fields, and where search() stands
    receiving_events, printers, _main_loop, _server, search_pc, search_ret,
    \* the armed GLib timeout sources calling _check_timeout: for each the
    \* search() call that added it and when it fires next
    timers,
    \* the clock (seconds since search() armed the timer)
    now,
    \* the event source: when it emits an ItemNew, which of these were handled,
    \* whether it has sent AllForNow
    emit_times, delivered, all_for_now_sent,
    \* history: the announcements handled, when and why the loop was told to
    \* quit, and the printers list as AllForNow was handled
    log, quit_time, quit_by, printers_at_all_for_now,
    \* how many times search() was called on the finder, and when the call
    \* under way armed its timer
    calls, started,
    \* airprint-generate.py: the module flags set at import, the parsed command
    \* line, the printers the CUPS server reports, and main()'s progress
    HAS_CUPS, HAS_AVAHI, HAVE_AVAHI, args, cups_server,
    main_pc, missing_deps, generator, exit_code, files,
    \* generate(): its list printers (the concatenated collector results), the
    \* index of the record its loop emits next, and the names of the files
    \* written so far, in the order of the writes
    collected, emit_next, written

txtVars == <<txt_pc, txt_key, txt_value, txt_ret>>

fmtVars == <<fmt_pc, fmt_attrs, fmt_ret>>

capVars == <<cap_pc, cap_attrs, cap_ret>>

finderVars == <<receiving_events, printers, _main_loop, _server, search_pc, search_ret>>

loopVars == <<timers, now, emit_times, delivered, all_for_now_sent>>

historyVars == <<log, quit_time, quit_by, printers_at_all_for_now>>

sessionVars == <<calls, started>>

searchVars == <<finderVars, loopVars, historyVars, sessionVars>>

mainVars == <<HAS_CUPS, HAS_AVAHI, HAVE_AVAHI, args, cups_server,
              main_pc, missing_deps, generator, exit_code, files,
              collected, emit_next, written>>

vars == <<txtVars, fmtVars, capVars, searchVars, mainVars>>

---------------------------------------------------------------------------
(* Bounds of the model *)

\* code points appended after the ASCII run of a sampled TXT value
MaxTail == 2
\* how far below and above the 254/255-byte limit the sampled lengths go
MaxSlack == 2
\* entries of a sampled document-format-supported list
MaxFormats == 3
\* largest sampled copies-supported
MaxCopies == 3
\* the event source emits at whole seconds 0..MaxTime
MaxTime == 3
\* announcements the event source emits in one search
MaxEvents == 3
\* records of the DNS-SD collector in a sampled result of the collectors
MaxRecords == 2
\* calls of search() on one finder
MaxCalls == 2

---------------------------------------------------------------------------
(* Python values *)

None == "None"

Ok(v) == [ok |-> TRUE, val |-> v]

Raise(e) == [ok |-> FALSE, exc |-> e]

Min(a, b) == IF a < b THEN a ELSE b

Max(a, b) == IF a > b THEN a ELSE b

\* c * n for a one-character str c
Rep(c, n) == [i \in 1..n |-> c]

\* b[:n] of Python, n possibly negative
PySliceTo(b, n) ==
    IF n >= 0 THEN SubSeq(b, 1, Min(n, Len(b)))
    ELSE SubSeq(b, 1, Max(Len(b) + n, 0))

\* number of bytes of the UTF-8 encoding of one code point
Utf8Len(c) ==
    CASE c = "U+00E9" -> 2
      [] c = "U+20AC" -> 3
      [] c = "U+1F600" -> 4
      [] OTHER -> 1

\* str.encode('utf-8')
\* (the str is halved at each step, so that the evaluation stays shallow)
RECURSIVE Encode(_)
Encode(s) ==
    IF s = <<>> THEN <<>>
    ELSE IF Len(s) = 1 THEN [k \in 1..Utf8Len(s[1]) |-> <<s[1], k>>]
    ELSE LET m == Len(s) \div 2
         IN  Encode(SubSeq(s, 1, m)) \o Encode(SubSeq(s, m + 1, Len(s)))

\* whether bytes.decode('utf-8') succeeds on b: every byte lies in a complete
\* encoding of its code point
Decodes(b) ==
    \A p \in 1..Len(b) :
        LET c == b[p][1]
            first == p - b[p][2] + 1
        IN  /\ first >= 1
            /\ first + Utf8Len(c) - 1 <= Len(b)
            /\ \A k \in 1..Utf8Len(c) : b[first + k - 1] = <<c, k>>

\* bytes.decode('utf-8') of a decodable b
Decode(b) == LET lead == SelectSeq(b, LAMBDA x : x[2] = 1)
             IN  [i \in 1..Len(lead) |-> lead[i][1]]

\* str.split(sep, 1) for a one-character sep
IndexOf(s, c) ==
    LET at == {p \in 1..Len(s) : s[p] = c}
    IN  IF at = {} THEN 0 ELSE CHOOSE p \in at : \A q \in at : p <= q

Split1(s, c) ==
    LET p == IndexOf(s, c)
    IN  IF p = 0 THEN <<s>>
        ELSE <<SubSeq(s, 1, p - 1), SubSeq(s, p + 1, Len(s))>>

\* lst[1] of Python (the second element)
Item1(lst) == IF Len(lst) >= 2 THEN Ok(lst[2]) ELSE Raise("IndexError")

\* str(n) and hex(n) for an int n >= 0
Digit(d) == <<"0", "1", "2", "3", "4", "5", "6", "7", "8", "9",
              "a", "b", "c", "d", "e", "f">>[d + 1]

RECURSIVE ToBase(_, _)
ToBase(n, base) ==
    IF n < base THEN <<Digit(n)>>
    ELSE Append(ToBase(n \div base, base), Digit(n % base))

PyStr(n) == ToBase(n, 10)

PyHex(n) == <<"0", "x">> \o ToBase(n, 16)

\* re.sub(r'^/+', '', s)
StripLeadingSlashes(s) ==
    LET other == {p \in 1..Len(s) : s[p] # "/"}
    IN  IF other = {} THEN <<>>
        ELSE SubSeq(s, CHOOSE p \in other : \A q \in other : p <= q, Len(s))

\* s.rsplit(c, 1)
RSplit1(s, c) ==
    LET at == {p \in 1..Len(s) : s[p] = c}
    IN  IF at = {} THEN <<s>>
        ELSE LET p == CHOOSE q \in at : \A r \in at : r <= q
             IN  <<SubSeq(s, 1, p - 1), SubSeq(s, p + 1, Len(s))>>

\* sep.join(lst) for a list of str
RECURSIVE Join(_, _)
Join(sep, lst) ==
    IF lst = <<>> THEN <<>>
    ELSE IF Len(lst) = 1 THEN lst[1]
    ELSE lst[1] \o sep \o Join(sep, Tail(lst))

\* x in lst
InList(x, lst) == \E i \in 1..Len(lst) : lst[i] = x

\* A dict is the sequence of its <<key, value>> items in insertion order.
DictKeys(d) == {d[i][1] : i \in 1..Len(d)}

DictHas(d, k) == k \in DictKeys(d)

DictGet(d, k) == d[CHOOSE i \in 1..Len(d) : d[i][1] = k][2]

\* d[k] = v
DictSet(d, k, v) ==
    IF DictHas(d, k) THEN [i \in 1..Len(d) |-> IF d[i][1] = k THEN <<k, v>> ELSE d[i]]
    ELSE Append(d, <<k, v>>)

\* d.update(e)
RECURSIVE DictUpdate(_, _)
DictUpdate(d, e) ==
    IF e = <<>> THEN d
    ELSE DictUpdate(DictSet(d, e[1][1], e[1][2]), Tail(e))

---------------------------------------------------------------------------
(* airprint-generate.py: the TXT-record normalizer *)

_is_valid_utf8(bytes_str) == Decodes(bytes_str)

RECURSIVE TrimToValid(_)
TrimToValid(truncated_bytes) ==
    IF _is_valid_utf8(truncated_bytes) THEN truncated_bytes
    ELSE TrimToValid(PySliceTo(truncated_bytes, -1))

_validate_txt_record(key, value) ==
    LET txt_record == key \o <<"=">> \o value
    IN  IF Len(Encode(txt_record)) >= 255
        THEN LET max_bytes == 254 - Len(Encode(key)) - 1
                 value_bytes == Encode(value)
                 truncated_bytes == PySliceTo(value_bytes, max_bytes)
             IN  Decode(TrimToValid(truncated_bytes))
        ELSE value

ALLOWED_DOCUMENT_TYPES ==
    [t \in {<<"a", "p", "p", "l", "i", "c", "a", "t", "i", "o", "n", "/", "p", "d", "f">>, <<"a", "p", "p", "l", "i", "c", "a", "t", "i", "o", "n", "/", "p", "o", "s", "t", "s", "c", "r", "i", "p", "t">>,
            <<"a", "p", "p", "l", "i", "c", "a", "t", "i", "o", "n", "/", "v", "n", "d", ".", "c", "u", "p", "s", "-", "r", "a", "s", "t", "e", "r">>, <<"a", "p", "p", "l", "i", "c", "a", "t", "i", "o", "n", "/", "o", "c", "t", "e", "t", "-", "s", "t", "r", "e", "a", "m">>,
            <<"i", "m", "a", "g", "e", "/", "u", "r", "f">>, <<"i", "m", "a", "g", "e", "/", "p", "n", "g">>, <<"i", "m", "a", "g", "e", "/", "t", "i", "f", "f">>, <<"i", "m", "a", "g", "e", "/", "j", "p", "e", "g">>,
            <<"i", "m", "a", "g", "e", "/", "g", "i", "f">>, <<"t", "e", "x", "t", "/", "p", "l", "a", "i", "n">>, <<"t", "e", "x", "t", "/", "h", "t", "m", "l">>} |-> TRUE]

BLOCKED_DOCUMENT_TYPES ==
    [t \in {<<"i", "m", "a", "g", "e", "/", "x", "-", "x", "w", "i", "n", "d", "o", "w", "d", "u", "m", "p">>, <<"i", "m", "a", "g", "e", "/", "x", "-", "x", "p", "i", "x", "m", "a", "p">>, <<"i", "m", "a", "g", "e", "/", "x", "-", "x", "b", "i", "t", "m", "a", "p">>,
            <<"i", "m", "a", "g", "e", "/", "x", "-", "s", "u", "n", "-", "r", "a", "s", "t", "e", "r">>, <<"i", "m", "a", "g", "e", "/", "x", "-", "s", "g", "i", "-", "r", "g", "b">>,
            <<"i", "m", "a", "g", "e", "/", "x", "-", "p", "o", "r", "t", "a", "b", "l", "e", "-", "p", "i", "x", "m", "a", "p">>, <<"i", "m", "a", "g", "e", "/", "x", "-", "p", "o", "r", "t", "a", "b", "l", "e", "-", "g", "r", "a", "y", "m", "a", "p">>,
            <<"i", "m", "a", "g", "e", "/", "x", "-", "p", "o", "r", "t", "a", "b", "l", "e", "-", "b", "i", "t", "m", "a", "p">>, <<"i", "m", "a", "g", "e", "/", "x", "-", "p", "o", "r", "t", "a", "b", "l", "e", "-", "a", "n", "y", "m", "a", "p">>,
            <<"a", "p", "p", "l", "i", "c", "a", "t", "i", "o", "n", "/", "x", "-", "s", "h", "e", "l", "l">>, <<"a", "p", "p", "l", "i", "c", "a", "t", "i", "o", "n", "/", "x", "-", "p", "e", "r", "l">>,
            <<"a", "p", "p", "l", "i", "c", "a", "t", "i", "o", "n", "/", "x", "-", "c", "s", "o", "u", "r", "c", "e">>, <<"a", "p", "p", "l", "i", "c", "a", "t", "i", "o", "n", "/", "x", "-", "c", "s", "h", "e", "l", "l">>} |-> FALSE]

\* {**ALLOWED_DOCUMENT_TYPES, **BLOCKED_DOCUMENT_TYPES}
DOCUMENT_TYPES ==
    [t \in (DOMAIN ALLOWED_DOCUMENT_TYPES) \cup (DOMAIN BLOCKED_DOCUMENT_TYPES) |->
        IF t \in DOMAIN BLOCKED_DOCUMENT_TYPES THEN BLOCKED_DOCUMENT_TYPES[t]
        ELSE ALLOWED_DOCUMENT_TYPES[t]]

\* attrs maps the names of CUPS attributes (plain strings) to their values.
_process_printer_formats(attrs) ==
    IF "document-format-supported" \notin DOMAIN attrs THEN Raise("KeyError")
    ELSE
    LET supported == attrs["document-format-supported"]
        formats == SelectSeq(supported,
                       LAMBDA fmt : fmt \in DOMAIN DOCUMENT_TYPES /\ DOCUMENT_TYPES[fmt])
        deferred == SelectSeq(supported, LAMBDA fmt : fmt \notin DOMAIN DOCUMENT_TYPES)
        all_formats == Join(<<",">>, formats \o deferred)
    IN  Item1(Split1(_validate_txt_record(<<"p", "d", "l">>, all_formats), "="))

\* The transforms of caps_mapping.  The value of printer-bindings-supported and
\* of sides-supported is a list of keywords, that of copies-supported an
\* integer, the others are booleans.
BindTransform(x) == IF x # <<>> THEN <<"T">> ELSE None

DuplexTransform(x) == IF InList("two-sided-long-edge", x) THEN <<"T">> ELSE None

CollateTransform(x) == IF x THEN <<"T">> ELSE None

\* a transform that takes one copy for multi-copy support
CopiesTransformAtLeastOne(x) == IF x # 0 /\ x >= 1 THEN <<"T">> ELSE None

CopiesTransform(x) == IF x # 0 /\ x > 1 THEN <<"T">> ELSE None

ColorTransform(x) == IF x THEN <<"T">> ELSE None

BinaryTransform(x) == IF x THEN <<"T">> ELSE None

caps_mapping ==
    << <<"printer-bindings-supported", <<"B", "i", "n", "d">>>>,
       <<"sides-supported", <<"D", "u", "p", "l", "e", "x">>>>,
       <<"collate-supported", <<"C", "o", "l", "l", "a", "t", "e">>>>,
       <<"copies-supported", <<"C", "o", "p", "i", "e", "s">>>>,
       <<"color-supported", <<"C", "o", "l", "o", "r">>>>,
       <<"printer-binary-ok-supported", <<"B", "i", "n", "a", "r", "y">>>> >>

Transform(cups_key, x) ==
    CASE cups_key = "printer-bindings-supported" -> BindTransform(x)
      [] cups_key = "sides-supported" -> DuplexTransform(x)
      [] cups_key = "collate-supported" -> CollateTransform(x)
      [] cups_key = "copies-supported" -> CopiesTransform(x)
      [] cups_key = "color-supported" -> ColorTransform(x)
      [] cups_key = "printer-binary-ok-supported" -> BinaryTransform(x)

\* the items caps_mapping[i..] add to capabilities
RECURSIVE CapabilitiesFrom(_, _)
CapabilitiesFrom(attrs, i) ==
    IF i > Len(caps_mapping) THEN <<>>
    ELSE LET cups_key == caps_mapping[i][1]
             airprint_key == caps_mapping[i][2]
             rest == CapabilitiesFrom(attrs, i + 1)
         IN  IF cups_key \in DOMAIN attrs /\ Transform(cups_key, attrs[cups_key]) # None
             THEN <<<<airprint_key, Transform(cups_key, attrs[cups_key])>>>> \o rest
             ELSE rest

_get_printer_capabilities(attrs) == CapabilitiesFrom(attrs, 1)

PrinterInfo(name, host, address, port, domain, txt, source) ==
    [name |-> name, host |-> host, address |-> address, port |-> port,
     domain |-> domain, txt |-> txt, source |-> source]

\* cups.getPort()
CupsGetPort == 631

\* the validation loop of _collect_cups_printers over txt_records[i..]:
\* validated_txt, or the IndexError of split('=', 1)[1]
RECURSIVE ValidatedTxtFrom(_, _, _)
ValidatedTxtFrom(txt_records, i, validated_txt) ==
    IF i > Len(txt_records) THEN Ok(validated_txt)
    ELSE LET key == txt_records[i][1]
             value == txt_records[i][2]
             validated_value == _validate_txt_record(key, value)
             second == Item1(Split1(validated_value, "="))
         IN  IF value = <<>> \/ validated_value = <<>>
             THEN ValidatedTxtFrom(txt_records, i + 1, validated_txt)
             ELSE IF ~second.ok THEN second
             ELSE ValidatedTxtFrom(txt_records, i + 1,
                                   DictSet(validated_txt, key, second.val))

\* the body of the loop of _collect_cups_printers for one shared printer.  A
\* port that is None is 0 here (both are falsy); self.user and self.port are
\* None; the printer-uri-supported is given with urlparse's port and path,
\* and its path does not begin with '//', so that the re.match fails.
CupsPrinterInfo(self, p) ==
    LET details == p.details
        attrs == p.attrs
        uri == details["printer-uri-supported"]
        port_no == IF uri.port # 0 THEN uri.port ELSE CupsGetPort
        resource_path == StripLeadingSlashes(uri.path)
        formats == _process_printer_formats(attrs)
        capabilities == _get_printer_capabilities(attrs)
        basic == << <<<<"r", "p">>, resource_path>>,
                    <<<<"n", "o", "t", "e">>, details["printer-location"]>>,
                    <<<<"p", "r", "o", "d", "u", "c", "t">>, <<"(", "G", "P", "L", " ", "G", "h", "o", "s", "t", "s", "c", "r", "i", "p", "t", ")">>>>,
                    <<<<"t", "y">>, details["printer-make-and-model"]>>,
                    <<<<"p", "r", "i", "n", "t", "e", "r", "-", "s", "t", "a", "t", "e">>, PyStr(details["printer-state"])>>,
                    <<<<"p", "r", "i", "n", "t", "e", "r", "-", "t", "y", "p", "e">>, PyHex(details["printer-type"])>>,
                    <<<<"p", "d", "l">>, formats.val>>,
                    <<<<"m", "e", "d", "i", "a", "-", "d", "e", "f", "a", "u", "l", "t">>,
                      IF "media-default" \in DOMAIN attrs THEN attrs["media-default"]
                      ELSE <<>>>> >>
        with_admin == IF self.adminurl
                      THEN DictSet(basic, <<"a", "d", "m", "i", "n", "u", "r", "l">>, uri.text)
                      ELSE basic
        txt_records == DictUpdate(with_admin, capabilities)
        validated_txt == ValidatedTxtFrom(txt_records, 1, <<>>)
    IN  IF ~formats.ok THEN formats
        ELSE IF ~validated_txt.ok THEN validated_txt
        ELSE Ok(PrinterInfo(p.name, <<>>, <<>>, port_no, <<"l", "o", "c", "a", "l">>,
                            validated_txt.val, <<"C", "U", "P", "S">>))

\* the loop of _collect_cups_printers over the printers server[i..]
RECURSIVE CupsPrintersFrom(_, _, _, _)
CupsPrintersFrom(self, server, i, prs) ==
    IF i > Len(server) THEN Ok(prs)
    ELSE IF ~server[i].details["printer-is-shared"]
    THEN CupsPrintersFrom(self, server, i + 1, prs)
    ELSE LET printer == CupsPrinterInfo(self, server[i])
         IN  IF ~printer.ok THEN printer
             ELSE CupsPrintersFrom(self, server, i + 1, Append(prs, printer.val))

_collect_cups_printers(self, server) ==
    IF ~self.use_cups THEN Ok(<<>>)
    ELSE CupsPrintersFrom(self, server, 1, <<>>)

\* the methods of avahi-search.py's class AvahiPrinterFinder
AvahiPrinterFinderMethods ==
    {"__init__", "_parse_txt_records", "_handle_service_found", "_handle_all_for_now",
     "_check_timeout", "search"}

\* finder.Search() where finder is an AvahiPrinterFinder; the PrinterService
\* objects a search returns are no mappings, which {**p, ...} needs
_collect_avahi_printers(self, have_avahi) ==
    IF ~self.use_avahi THEN Ok(<<>>)
    ELSE IF ~have_avahi THEN Raise("ImportError")
    ELSE IF "Search" \notin AvahiPrinterFinderMethods THEN Raise("AttributeError")
    ELSE Raise("TypeError")

\* the <txt-record> elements of XML_TEMPLATE
TemplateTxtRecords ==
    <<<<"t", "x", "t", "v", "e", "r", "s", "=", "1">>, <<"q", "t", "o", "t", "a", "l", "=", "1">>, <<"T", "r", "a", "n", "s", "p", "a", "r", "e", "n", "t", "=", "T">>, <<"U", "R", "F", "=", "D", "M", "3">>, <<"T", "L", "S", "=", "1", ".", "2">>>>

\* the <txt-record> texts of the items txt[i..] of printer.txt
RECURSIVE TxtElementsFrom(_, _, _)
TxtElementsFrom(self, txt, i) ==
    IF i > Len(txt) THEN <<>>
    ELSE IF self.adminurl \/ txt[i][1] # <<"a", "d", "m", "i", "n", "u", "r", "l">>
    THEN <<txt[i][1] \o <<"=">> \o txt[i][2]>> \o TxtElementsFrom(self, txt, i + 1)
    ELSE TxtElementsFrom(self, txt, i + 1)

\* the file _create_service_file writes: <<its name, its elements>>
_create_service_file(self, printer) ==
    LET parts == RSplit1(printer.host, ".")
        host == IF self.dns_domain # <<>> /\ Len(parts) > 1
                THEN parts[1] \o <<".">> \o self.dns_domain
                ELSE printer.host
        color == IF DictHas(printer.txt, <<"c", "o", "l", "o", "r", "-", "s", "u", "p", "p", "o", "r", "t", "e", "d">>)
                    /\ DictGet(printer.txt, <<"c", "o", "l", "o", "r", "-", "s", "u", "p", "p", "o", "r", "t", "e", "d">>) # <<>>
                 THEN <<<<"C", "o", "l", "o", "r", "=", "T">>>> ELSE <<>>
        paper == IF DictHas(printer.txt, <<"m", "e", "d", "i", "a", "-", "d", "e", "f", "a", "u", "l", "t">>)
                    /\ DictGet(printer.txt, <<"m", "e", "d", "i", "a", "-", "d", "e", "f", "a", "u", "l", "t">>) = <<"i", "s", "o", "_", "a", "4", "_", "2", "1", "0", "x", "2", "9", "7", "m", "m">>
                 THEN <<<<"P", "a", "p", "e", "r", "M", "a", "x", "=", "l", "e", "g", "a", "l", "-", "A", "4">>>> ELSE <<>>
        source_prefix == IF printer.source # <<>> THEN printer.source \o <<"-">> ELSE <<>>
        filename == self.prefix \o source_prefix \o printer.name \o <<".", "s", "e", "r", "v", "i", "c", "e">>
    IN  <<filename,
          [name |-> <<"S", "e", "c", ".", "A", "i", "r", "P", "r", "i", "n", "t", " ">> \o printer.name \o <<" ", "@", " ", "%", "h">>,
           type |-> <<"_", "i", "p", "p", "s", ".", "_", "t", "c", "p">>,
           subtype |-> <<"_", "u", "n", "i", "v", "e", "r", "s", "a", "l", ".", "_", "s", "u", "b", ".", "_", "i", "p", "p", "s", ".", "_", "t", "c", "p">>,
           port |-> PyStr(printer.port),
           host_name |-> IF printer.host # <<>> THEN <<host>> ELSE <<>>,
           txt_record |-> TemplateTxtRecords \o TxtElementsFrom(self, printer.txt, 1)
                            \o color \o paper]>>

\* the files after the loop of generate over prs[i..]; a file written again is
\* overwritten
RECURSIVE FilesFrom(_, _, _, _)
FilesFrom(self, prs, i, directory) ==
    IF i > Len(prs) THEN directory
    ELSE LET file == _create_service_file(self, prs[i])
         IN  FilesFrom(self, prs, i + 1, DictSet(directory, file[1], file[2]))

\* generate(): the files it leaves in the directory, or the exception of a
\* collector
generate(self, server, have_avahi) ==
    LET from_cups == _collect_cups_printers(self, server)
        from_avahi == _collect_avahi_printers(self, have_avahi)
    IN  IF ~from_cups.ok THEN from_cups
        ELSE IF ~from_avahi.ok THEN from_avahi
        ELSE LET prs == from_cups.val \o from_avahi.val
             IN  Ok([printers |-> prs,
                     files |-> FilesFrom(self, prs, 1, <<>>),
                     written |-> [i \in 1..Len(prs) |->
                                     _create_service_file(self, prs[i])[1]]])

\* AirPrintGenerator.__init__ as main calls it
AirPrintGenerator(a, has_cups, has_avahi) ==
    [prefix |-> <<"A", "i", "r", "P", "r", "i", "n", "t", "-">>, adminurl |-> a.adminurl,
     use_cups |-> a.cups /\ has_cups, use_avahi |-> a.avahi /\ has_avahi,
     dns_domain |-> <<>>]

\* main(): the list of the missing dependencies
MissingDeps(a, has_cups, has_avahi) ==
    (IF a.cups /\ ~has_cups THEN <<"CUPS (python3-cups)">> ELSE <<>>)
    \o (IF a.avahi /\ ~has_avahi THEN <<"Avahi (python3-avahi)">> ELSE <<>>)

\* sum([args.cups, args.avahi])
Requested(a) == (IF a.cups THEN 1 ELSE 0) + (IF a.avahi THEN 1 ELSE 0)

\* main() from the parsed arguments to the check of the dependencies
MainCheckDeps ==
    /\ main_pc = "start"
    /\ missing_deps' = MissingDeps(args, HAS_CUPS, HAS_AVAHI)
    /\ IF missing_deps' # <<>> /\ Len(missing_deps') = Requested(args)
       THEN main_pc' = "exited" /\ exit_code' = 1
       ELSE main_pc' = "construct" /\ UNCHANGED exit_code
    /\ UNCHANGED <<HAS_CUPS, HAS_AVAHI, HAVE_AVAHI, args, cups_server, generator, files,
                   collected, emit_next, written, txtVars, fmtVars, capVars, searchVars>>

MainConstruct ==
    /\ main_pc = "construct"
    /\ generator' = AirPrintGenerator(args, HAS_CUPS, HAS_AVAHI)
    /\ main_pc' = "generate"
    /\ UNCHANGED <<HAS_CUPS, HAS_AVAHI, HAVE_AVAHI, args, cups_server, missing_deps,
                   exit_code, files, collected, emit_next, written,
                   txtVars, fmtVars, capVars, searchVars>>

\* generator.generate() and the end of main(): an exception that nothing
\* catches ends the process with status 1
MainGenerate ==
    /\ main_pc = "generate"
    /\ \E done \in {generate(generator, cups_server, HAVE_AVAHI)} :
           IF done.ok
           THEN /\ collected' = done.val.printers
                /\ emit_next' = Len(done.val.printers) + 1
                /\ files' = done.val.files
                /\ written' = done.val.written
                /\ exit_code' = 0
           ELSE /\ UNCHANGED <<collected, emit_next, files, written>>
                /\ exit_code' = 1
    /\ main_pc' = "exited"
    /\ UNCHANGED <<HAS_CUPS, HAS_AVAHI, HAVE_AVAHI, args, cups_server, missing_deps,
                   generator, txtVars, fmtVars, capVars, searchVars>>

\* one pass of the loop of generate(): _create_service_file(printer) for the
\* next record of printers; opening the file for writing replaces a file of
\* that name
CreateServiceFile ==
    /\ main_pc = "emit"
    /\ emit_next <= Len(collected)
    /\ LET file == _create_service_file(generator, collected[emit_next])
       IN  /\ files' = DictSet(files, file[1], file[2])
           /\ written' = Append(written, file[1])
    /\ emit_next' = emit_next + 1
    /\ UNCHANGED <<HAS_CUPS, HAS_AVAHI, HAVE_AVAHI, args, cups_server, main_pc,
                   missing_deps, generator, exit_code, collected,
                   txtVars, fmtVars, capVars, searchVars>>

\* the loop of generate() is through (or printers was empty): generate() and
\* main() return
GenerateReturn ==
    /\ main_pc = "emit"
    /\ emit_next > Len(collected)
    /\ main_pc' = "exited"
    /\ exit_code' = 0
    /\ UNCHANGED <<HAS_CUPS, HAS_AVAHI, HAVE_AVAHI, args, cups_server, missing_deps,
                   generator, files, collected, emit_next, written,
                   txtVars, fmtVars, capVars, searchVars>>

---------------------------------------------------------------------------
(* avahi-search.py: AvahiPrinterFinder *)

SERVICE_TYPE == "_ipp._tcp"

BROWSE_TIMEOUT == 2

PrinterService(name, host, address, port, domain, txt) ==
    [name |-> name, host |-> host, address |-> address, port |-> port,
     domain |-> domain, txt |-> txt]

\* the dict after the entries txt_array[i..] are added to txt_dict
RECURSIVE ParseTxtFrom(_, _, _)
ParseTxtFrom(txt_array, i, txt_dict) ==
    IF i > Len(txt_array) THEN txt_dict
    ELSE LET parts == Split1(txt_array[i], "=")
             key == parts[1]
             value == IF Len(parts) > 1 THEN parts[2] ELSE <<>>
         IN  ParseTxtFrom(txt_array, i + 1, DictSet(txt_dict, key, value))

_parse_txt_records(txt_array) == ParseTxtFrom(txt_array, 1, <<>>)

\* self._server.ResolveService(...): what the Avahi server answers for the
\* announcement, the resolved service or a DBusException
ResolveService(ann) == ann.resolution

\* avahi.txt_array_to_string_array(r_txt): the strings, or an error when the
\* blob cannot be converted
txt_array_to_string_array(r_txt) ==
    IF r_txt.decodable THEN Ok(r_txt.strings) ELSE Raise("UnicodeDecodeError")

\* the body of the try block of _handle_service_found: the printer to append
ResolvedPrinter(ann) ==
    LET resolved == ResolveService(ann)
    IN  IF ~resolved.ok THEN resolved
        ELSE LET r == resolved.val
                 txt_array == txt_array_to_string_array(r.r_txt)
             IN  IF ~txt_array.ok THEN txt_array
                 ELSE Ok(PrinterService(r.r_name, r.r_host, r.r_address, r.r_port,
                                        r.r_domain, _parse_txt_records(txt_array.val)))

\* a handler that appends a record for an announcement it could not resolve
PrintersAfterServiceFoundUnresolved(prs, ann) ==
    LET printer == ResolvedPrinter(ann)
    IN  IF printer.ok THEN Append(prs, printer.val)
        ELSE Append(prs, PrinterService(ann.name, "", "", 0, ann.domain, <<>>))

\* self.printers after _handle_service_found: both except clauses log and
\* return
PrintersAfterServiceFound(prs, ann) ==
    LET printer == ResolvedPrinter(ann)
    IN  IF printer.ok THEN Append(prs, printer.val) ELSE prs

\* what the handler met: "ok", or the exception it caught
Outcome(ann) ==
    LET printer == ResolvedPrinter(ann)
    IN  IF printer.ok THEN "ok" ELSE printer.exc

\* a handler that sets the received-an-event flag only for an announcement it
\* resolved
_handle_service_found_if_resolved(ann) ==
    /\ _main_loop = "running"
    /\ receiving_events' = (receiving_events \/ ResolvedPrinter(ann).ok)
    /\ printers' = PrintersAfterServiceFound(printers, ann)
    /\ log' = Append(log, [time |-> now, ann |-> ann, outcome |-> Outcome(ann)])
    /\ UNCHANGED <<_main_loop, _server, search_pc, search_ret, timers,
                   quit_time, quit_by, printers_at_all_for_now>>

_handle_service_found(ann) ==
    /\ _main_loop = "running"
    /\ receiving_events' = TRUE
    /\ printers' = PrintersAfterServiceFound(printers, ann)
    /\ log' = Append(log, [time |-> now, ann |-> ann, outcome |-> Outcome(ann)])
    /\ UNCHANGED <<_main_loop, _server, search_pc, search_ret, timers,
                   quit_time, quit_by, printers_at_all_for_now>>

\* a handler that quits only when no announcement came since the last tick
_handle_all_for_now_if_idle ==
    /\ _main_loop = "running"
    /\ IF ~receiving_events
       THEN /\ _main_loop' = "quit"
            /\ quit_time' = now
            /\ quit_by' = "all_for_now"
       ELSE UNCHANGED <<_main_loop, quit_time, quit_by>>
    /\ printers_at_all_for_now' = printers
    /\ UNCHANGED <<receiving_events, printers, _server, search_pc, search_ret, timers, log>>

_handle_all_for_now ==
    /\ _main_loop = "running"
    /\ _main_loop' = "quit"
    /\ quit_time' = now
    /\ quit_by' = "all_for_now"
    /\ printers_at_all_for_now' = printers
    /\ UNCHANGED <<receiving_events, printers, _server, search_pc, search_ret, timers, log>>

\* a tick that leaves the received-an-event flag set
_check_timeout_keeps_flag(source) ==
    /\ _main_loop = "running"
    /\ IF ~receiving_events
       THEN /\ _main_loop' = "quit"
            /\ quit_time' = now
            /\ quit_by' = "idle"
            /\ timers' = timers \ {source}
       ELSE /\ timers' = (timers \ {source})
                            \cup {[source EXCEPT !.due = now + BROWSE_TIMEOUT]}
            /\ UNCHANGED <<_main_loop, quit_time, quit_by>>
    /\ UNCHANGED <<receiving_events, printers, _server, search_pc, search_ret, log,
                   printers_at_all_for_now>>

\* a tick that never tells the loop to quit
_check_timeout_stays_armed(source) ==
    /\ _main_loop = "running"
    /\ receiving_events' = FALSE
    /\ timers' = (timers \ {source})
                    \cup {[source EXCEPT !.due = now + BROWSE_TIMEOUT]}
    /\ UNCHANGED <<_main_loop, quit_time, quit_by>>
    /\ UNCHANGED <<printers, _server, search_pc, search_ret, log, printers_at_all_for_now>>

\* source is the timeout source that fires: returning False removes it,
\* returning True leaves it armed for the next interval
_check_timeout(source) ==
    /\ _main_loop = "running"
    /\ IF ~receiving_events
       THEN /\ _main_loop' = "quit"
            /\ quit_time' = now
            /\ quit_by' = "idle"
            /\ timers' = timers \ {source}
            /\ UNCHANGED receiving_events
       ELSE /\ receiving_events' = FALSE
            /\ timers' = (timers \ {source})
                            \cup {[source EXCEPT !.due = now + BROWSE_TIMEOUT]}
            /\ UNCHANGED <<_main_loop, quit_time, quit_by>>
    /\ UNCHANGED <<printers, _server, search_pc, search_ret, log, printers_at_all_for_now>>

---------------------------------------------------------------------------
(* Inputs of _validate_txt_record *)

TailCodePoints == {"v", "=", "U+00E9", "U+20AC", "U+1F600"}

RECURSIVE SeqsUpTo(_, _)
SeqsUpTo(S, n) ==
    IF n = 0 THEN {<<>>}
    ELSE LET shorter == SeqsUpTo(S, n - 1)
         IN  shorter \cup {Append(s, x) : s \in {t \in shorter : Len(t) = n - 1}, x \in S}

KeyLengths == {1, 3} \cup ((254 - MaxSlack)..(254 + MaxSlack))

ValueRunLengths(keylen) ==
    {0, 1} \cup {n \in ((253 - keylen - MaxSlack - 1)..(253 - keylen + MaxSlack)) : n >= 0}

TxtInit ==
    /\ txt_pc = "call"
    /\ \E kl \in KeyLengths, tail \in SeqsUpTo(TailCodePoints, MaxTail) :
         \E vl \in ValueRunLengths(kl) :
            /\ txt_key = Rep("k", kl)
            /\ txt_value = Rep("v", vl) \o tail
    /\ txt_ret = None

(* Inputs of _process_printer_formats *)

SampleFormats ==
    {<<"a", "p", "p", "l", "i", "c", "a", "t", "i", "o", "n", "/", "p", "d", "f">>, <<"i", "m", "a", "g", "e", "/", "u", "r", "f">>, <<"i", "m", "a", "g", "e", "/", "x", "-", "x", "b", "i", "t", "m", "a", "p">>,
     <<"a", "p", "p", "l", "i", "c", "a", "t", "i", "o", "n", "/", "v", "n", "d", ".", "e", "x", "a", "m", "p", "l", "e", "-", "u", "n", "k", "n", "o", "w", "n">>, <<"t", "e", "x", "t", "/", "x", ";", "a", "=", "b">>}

FmtInit ==
    /\ fmt_pc = "call"
    /\ \E supported \in SeqsUpTo(SampleFormats, MaxFormats) :
         fmt_attrs = [a \in {"document-format-supported"} |-> supported]
    /\ fmt_ret = None

FmtIdle ==
    /\ fmt_pc = "off"
    /\ fmt_attrs = <<>>
    /\ fmt_ret = None

(* Inputs of _get_printer_capabilities *)

CapabilityAttributes == {caps_mapping[i][1] : i \in 1..Len(caps_mapping)}

SampleValues(cups_key) ==
    CASE cups_key = "printer-bindings-supported" -> {<<>>, <<"staple">>}
      [] cups_key = "sides-supported" ->
            {<<"one-sided">>, <<"one-sided", "two-sided-long-edge">>,
             <<"one-sided", "two-sided-short-edge">>}
      [] cups_key = "copies-supported" -> 0..MaxCopies
      [] OTHER -> BOOLEAN

CapInit ==
    /\ cap_pc = "call"
    /\ \E present \in SUBSET CapabilityAttributes,
          bind \in SampleValues("printer-bindings-supported"),
          sides \in SampleValues("sides-supported"),
          collate \in SampleValues("collate-supported"),
          copies \in SampleValues("copies-supported"),
          color \in SampleValues("color-supported"),
          binary \in SampleValues("printer-binary-ok-supported") :
         cap_attrs = [k \in present |->
                        CASE k = "printer-bindings-supported" -> bind
                          [] k = "sides-supported" -> sides
                          [] k = "collate-supported" -> collate
                          [] k = "copies-supported" -> copies
                          [] k = "color-supported" -> color
                          [] k = "printer-binary-ok-supported" -> binary]
    /\ cap_ret = None

CapIdle ==
    /\ cap_pc = "off"
    /\ cap_attrs = <<>>
    /\ cap_ret = None

(* The event source of a search *)

SampleTxt ==
    {[decodable |-> TRUE, strings |-> <<<<"t", "y", "=", "L", "a", "s", "e", "r">>, <<"D", "u", "p", "l", "e", "x">>>>],
     [decodable |-> TRUE, strings |-> <<<<"t", "y", "=", "I", "n", "k">>, <<"n", "o", "t", "e", "=", "a", "=", "b">>>>],
     [decodable |-> FALSE, strings |-> <<>>]}

\* Office answers with any of the TXT blobs, Lab with one
SampleServices ==
    {[name |-> "Office", host |-> "office.local", address |-> "192.0.2.10", port |-> 631,
      txt |-> SampleTxt],
     [name |-> "Lab", host |-> "lab.local", address |-> "192.0.2.11", port |-> 8631,
      txt |-> {[decodable |-> TRUE, strings |-> <<<<"t", "y", "=", "I", "n", "k">>, <<"n", "o", "t", "e", "=", "a", "=", "b">>>>]}]}

Resolutions(s) ==
    {Raise("DBusException")}
    \cup {Ok([r_name |-> s.name, r_domain |-> "local", r_host |-> s.host,
              r_address |-> s.address, r_port |-> s.port, r_txt |-> t]) : t \in s.txt}

Announcements ==
    UNION {{[name |-> s.name, domain |-> "local", resolution |-> r] : r \in Resolutions(s)} :
            s \in SampleServices}

\* the clock stops here: no loop runs longer
ClockEnd == MaxTime + 2 * BROWSE_TIMEOUT

\* search_ret is read once search_pc is "returned", quit_time and
\* printers_at_all_for_now once quit_by says why the loop was told to quit:
\* until then they hold the empty list and -1
SearchInit ==
    /\ receiving_events = FALSE
    /\ printers = <<>>
    /\ _main_loop = None
    /\ _server = None
    /\ search_pc = "idle"
    /\ search_ret = <<>>
    /\ timers = {}
    /\ now = 0
    /\ emit_times \in {E \in SUBSET (0..MaxTime) : Cardinality(E) <= MaxEvents}
    /\ delivered = {}
    /\ all_for_now_sent = FALSE
    /\ log = <<>>
    /\ quit_time = -1
    /\ quit_by = None
    /\ printers_at_all_for_now = <<>>
    /\ calls = 0
    /\ started = 0

SearchIdle ==
    /\ receiving_events = FALSE
    /\ printers = <<>>
    /\ _main_loop = None
    /\ _server = None
    /\ search_pc = "off"
    /\ search_ret = <<>>
    /\ timers = {}
    /\ now = 0
    /\ emit_times = {}
    /\ delivered = {}
    /\ all_for_now_sent = FALSE
    /\ log = <<>>
    /\ quit_time = -1
    /\ quit_by = None
    /\ printers_at_all_for_now = <<>>
    /\ calls = 0
    /\ started = 0

\* search() up to self._main_loop.run(): the server interface, the browser and
\* its signal handlers, the timer, the loop
SearchStart ==
    /\ search_pc = "idle"
    /\ _server' = "org.freedesktop.Avahi.Server"
    /\ timers' = timers \cup {[call |-> calls + 1, due |-> now + BROWSE_TIMEOUT]}
    /\ _main_loop' = "running"
    /\ search_pc' = "running"
    /\ calls' = calls + 1
    /\ started' = now
    /\ UNCHANGED <<receiving_events, printers, search_ret, now, emit_times, delivered,
                   all_for_now_sent, historyVars, txtVars, fmtVars, capVars, mainVars>>

\* search() is called again on the finder, after an earlier call returned:
\* the same set-up.  Nothing in it assigns self.receiving_events or
\* self.printers, and a timeout source of an earlier call that never
\* returned False is still attached to the default main context.  The new
\* browser sends its own AllForNow; the history starts anew with the call.
SearchAgain ==
    /\ search_pc = "returned"
    /\ calls < MaxCalls
    /\ _server' = "org.freedesktop.Avahi.Server"
    /\ timers' = timers \cup {[call |-> calls + 1, due |-> now + BROWSE_TIMEOUT]}
    /\ _main_loop' = "running"
    /\ search_pc' = "running"
    /\ calls' = calls + 1
    /\ started' = now
    /\ search_ret' = <<>>
    /\ all_for_now_sent' = FALSE
    /\ log' = <<>>
    /\ quit_time' = -1
    /\ quit_by' = None
    /\ printers_at_all_for_now' = <<>>
    /\ UNCHANGED <<receiving_events, printers, now, emit_times, delivered,
                   txtVars, fmtVars, capVars, mainVars>>

\* search(): a D-Bus call of the set-up raises; the finally clause runs
SearchSetupFails ==
    /\ search_pc = "idle"
    /\ search_pc' = "raised"
    /\ _main_loop' = None
    /\ _server' = None
    /\ UNCHANGED <<receiving_events, printers, search_ret, loopVars, historyVars,
                   sessionVars, txtVars, fmtVars, capVars, mainVars>>

\* the loop dispatches the ItemNew the source emits now
ItemNew ==
    /\ now \in emit_times \ delivered
    /\ delivered' = delivered \cup {now}
    /\ \E ann \in Announcements : _handle_service_found(ann)
    /\ UNCHANGED <<now, emit_times, all_for_now_sent, sessionVars, txtVars, fmtVars, capVars, mainVars>>

\* the loop dispatches the browser's AllForNow
AllForNow ==
    /\ ~all_for_now_sent
    /\ all_for_now_sent' = TRUE
    /\ _handle_all_for_now
    /\ UNCHANGED <<now, emit_times, delivered, sessionVars, txtVars, fmtVars, capVars, mainVars>>

\* the loop dispatches the timeout source when it is due
TimerTick ==
    /\ \E source \in timers :
         /\ source.due = now
         /\ _check_timeout(source)
    /\ UNCHANGED <<now, emit_times, delivered, all_for_now_sent, sessionVars, txtVars, fmtVars, capVars, mainVars>>

\* a second passes, once the loop has dispatched what was due
TimePasses ==
    /\ _main_loop = "running"
    /\ now < ClockEnd
    /\ \A source \in timers : now < source.due
    /\ now \notin emit_times \ delivered
    /\ now' = now + 1
    /\ UNCHANGED <<finderVars, timers, emit_times, delivered, all_for_now_sent,
                   historyVars, sessionVars, txtVars, fmtVars, capVars, mainVars>>

\* run() returns: search() returns self.printers, the finally clause runs
SearchReturn ==
    /\ search_pc = "running"
    /\ _main_loop = "quit"
    /\ search_ret' = printers
    /\ search_pc' = "returned"
    /\ _main_loop' = None
    /\ _server' = None
    /\ UNCHANGED <<receiving_events, printers, loopVars, historyVars,
                   sessionVars, txtVars, fmtVars, capVars, mainVars>>

(* The environment of main *)

Details(shared, location) ==
    [d \in {"printer-is-shared", "printer-uri-supported", "printer-location",
             "printer-make-and-model", "printer-state", "printer-type"} |->
        CASE d = "printer-is-shared" -> shared
          [] d = "printer-uri-supported" ->
                [text |-> <<"i", "p", "p", ":", "/", "/", "l", "o", "c", "a", "l", "h", "o", "s", "t", ":", "6", "3", "1", "/", "p", "r", "i", "n", "t", "e", "r", "s", "/", "p">>, port |-> 631,
                 path |-> <<"/", "p", "r", "i", "n", "t", "e", "r", "s", "/", "p">>]
          [] d = "printer-location" -> location
          [] d = "printer-make-and-model" -> <<"H", "P", " ", "L", "a", "s", "e", "r", "J", "e", "t">>
          [] d = "printer-state" -> 3
          [] d = "printer-type" -> 4124]

Attrs(supported) ==
    [a \in {"document-format-supported", "sides-supported", "copies-supported",
             "color-supported", "media-default"} |->
        CASE a = "document-format-supported" -> supported
          [] a = "sides-supported" -> <<"one-sided", "two-sided-long-edge">>
          [] a = "copies-supported" -> 1
          [] a = "color-supported" -> FALSE
          [] a = "media-default" -> <<"i", "s", "o", "_", "a", "4", "_", "2", "1", "0", "x", "2", "9", "7", "m", "m">>]

\* Office: shared, PDF and raster formats, duplex
Office ==
    [name |-> <<"O", "f", "f", "i", "c", "e">>, details |-> Details(TRUE, <<"R", "o", "o", "m", " ", "1">>),
     attrs |-> Attrs(<<<<"a", "p", "p", "l", "i", "c", "a", "t", "i", "o", "n", "/", "p", "d", "f">>, <<"a", "p", "p", "l", "i", "c", "a", "t", "i", "o", "n", "/", "v", "n", "d", ".", "c", "u", "p", "s", "-", "r", "a", "s", "t", "e", "r">>,
                      <<"i", "m", "a", "g", "e", "/", "u", "r", "f">>>>)]

\* Lab: not shared
Lab ==
    [name |-> <<"L", "a", "b">>, details |-> Details(FALSE, <<>>),
     attrs |-> Attrs(<<<<"a", "p", "p", "l", "i", "c", "a", "t", "i", "o", "n", "/", "p", "d", "f">>>>)]

\* Plotter: shared, one of its formats has a parameter
Plotter ==
    [name |-> <<"P", "l", "o", "t", "t", "e", "r">>, details |-> Details(TRUE, <<>>),
     attrs |-> Attrs(<<<<"i", "m", "a", "g", "e", "/", "u", "r", "f">>, <<"t", "e", "x", "t", "/", "x", ";", "a", "=", "b">>>>)]

CupsServers ==
    {<<>>, <<Office>>, <<Lab>>, <<Plotter>>, <<Lab, Office>>, <<Office, Plotter>>,
     <<Lab, Plotter>>, <<Lab, Office, Plotter>>}

MainInit ==
    /\ HAS_CUPS \in BOOLEAN
    /\ HAS_AVAHI \in BOOLEAN
    /\ HAVE_AVAHI \in BOOLEAN
    /\ args \in [cups : BOOLEAN, avahi : BOOLEAN, adminurl : BOOLEAN]
    /\ cups_server \in CupsServers
    /\ main_pc = "start"
    /\ missing_deps = <<>>
    /\ generator = None
    /\ exit_code = None
    /\ files = <<>>
    /\ collected = <<>>
    /\ emit_next = 1
    /\ written = <<>>

MainIdle ==
    /\ HAS_CUPS = FALSE
    /\ HAS_AVAHI = FALSE
    /\ HAVE_AVAHI = FALSE
    /\ args = None
    /\ cups_server = <<>>
    /\ main_pc = "off"
    /\ missing_deps = <<>>
    /\ generator = None
    /\ exit_code = None
    /\ files = <<>>
    /\ collected = <<>>
    /\ emit_next = 1
    /\ written = <<>>

(* The results of the collectors the loop of generate() is run on *)

\* a record as _collect_cups_printers builds it (lines 286-295): no host, no
\* address, the domain local, the source CUPS
CupsRecord(name, port, txt) ==
    PrinterInfo(name, <<>>, <<>>, port, <<"l", "o", "c", "a", "l">>, txt, <<"C", "U", "P", "S">>)

\* a record as _collect_avahi_printers builds it (line 306) from the fields of
\* a PrinterService: the source DNS-SD
DnssdRecord(name, host, address, port, txt) ==
    PrinterInfo(name, host, address, port, <<"l", "o", "c", "a", "l">>, txt, <<"D", "N", "S", "-", "S", "D">>)

SampleCupsRecords ==
    {CupsRecord(<<"O", "f", "f", "i", "c", "e">>, 631,
                << <<<<"r", "p">>, <<"p", "r", "i", "n", "t", "e", "r", "s", "/", "O", "f", "f", "i", "c", "e">>>>,
                   <<<<"m", "e", "d", "i", "a", "-", "d", "e", "f", "a", "u", "l", "t">>, <<"i", "s", "o", "_", "a", "4", "_", "2", "1", "0", "x", "2", "9", "7", "m", "m">>>>,
                   <<<<"a", "d", "m", "i", "n", "u", "r", "l">>, <<"i", "p", "p", ":", "/", "/", "l", "o", "c", "a", "l", "h", "o", "s", "t", ":", "6", "3", "1", "/", "p", "r", "i", "n", "t", "e", "r", "s", "/", "O", "f", "f", "i", "c", "e">>>> >>),
     CupsRecord(<<"P", "l", "o", "t", "t", "e", "r">>, 631,
                << <<<<"r", "p">>, <<"p", "r", "i", "n", "t", "e", "r", "s", "/", "P", "l", "o", "t", "t", "e", "r">>>>,
                   <<<<"c", "o", "l", "o", "r", "-", "s", "u", "p", "p", "o", "r", "t", "e", "d">>, <<"T">>>> >>)}

\* two of them are the printer Office, announced by two hosts
SampleDnssdRecords ==
    {DnssdRecord(<<"O", "f", "f", "i", "c", "e">>, <<"o", "f", "f", "i", "c", "e", ".", "l", "o", "c", "a", "l">>, <<"1", "9", "2", ".", "0", ".", "2", ".", "1", "0">>, 631,
                 _parse_txt_records(<<<<"t", "y", "=", "L", "a", "s", "e", "r">>, <<"D", "u", "p", "l", "e", "x">>>>)),
     DnssdRecord(<<"O", "f", "f", "i", "c", "e">>, <<"o", "f", "f", "i", "c", "e", "-", "2", ".", "l", "o", "c", "a", "l">>, <<"1", "9", "2", ".", "0", ".", "2", ".", "1", "2">>, 631,
                 _parse_txt_records(<<<<"t", "y", "=", "L", "a", "s", "e", "r">>, <<"D", "u", "p", "l", "e", "x">>>>)),
     DnssdRecord(<<"L", "a", "b">>, <<"l", "a", "b", ".", "l", "o", "c", "a", "l">>, <<"1", "9", "2", ".", "0", ".", "2", ".", "1", "1">>, 8631,
                 _parse_txt_records(<<<<"t", "y", "=", "I", "n", "k">>, <<"n", "o", "t", "e", "=", "a", "=", "b">>>>))}

\* conn.getPrinters() is a dict: the records of the CUPS collector differ in
\* their names
CupsResults ==
    {c \in SeqsUpTo(SampleCupsRecords, Cardinality(SampleCupsRecords)) :
        \A i, j \in 1..Len(c) : i # j => c[i].name # c[j].name}

\* the list generate() concatenates: the CUPS records, then the DNS-SD ones
CollectorResults ==
    {c \o d : c \in CupsResults, d \in SeqsUpTo(SampleDnssdRecords, MaxRecords)}

EmitInit ==
    /\ HAS_CUPS = TRUE
    /\ HAS_AVAHI = TRUE
    /\ HAVE_AVAHI = TRUE
    /\ args \in [cups : {TRUE}, avahi : {TRUE}, adminurl : BOOLEAN]
    /\ cups_server = <<>>
    /\ main_pc = "emit"
    /\ missing_deps = <<>>
    /\ generator = AirPrintGenerator(args, HAS_CUPS, HAS_AVAHI)
    /\ exit_code = None
    /\ files = <<>>
    /\ collected \in CollectorResults
    /\ emit_next = 1
    /\ written = <<>>

TxtIdle ==
    /\ txt_pc = "off"
    /\ txt_key = <<>>
    /\ txt_value = <<>>
    /\ txt_ret = None

ValidateTxtRecord ==
    /\ txt_pc = "call"
    /\ txt_ret' = _validate_txt_record(txt_key, txt_value)
    /\ txt_pc' = "returned"
    /\ UNCHANGED <<txt_key, txt_value, fmtVars, capVars, searchVars, mainVars>>

ProcessPrinterFormats ==
    /\ fmt_pc = "call"
    /\ fmt_ret' = _process_printer_formats(fmt_attrs)
    /\ fmt_pc' = "returned"
    /\ UNCHANGED <<fmt_attrs, txtVars, capVars, searchVars, mainVars>>

GetPrinterCapabilities ==
    /\ cap_pc = "call"
    /\ cap_ret' = _get_printer_capabilities(cap_attrs)
    /\ cap_pc' = "returned"
    /\ UNCHANGED <<cap_attrs, txtVars, fmtVars, searchVars, mainVars>>

InitTxt == TxtInit /\ FmtIdle /\ CapIdle /\ SearchIdle /\ MainIdle

InitFormats == FmtInit /\ TxtIdle /\ CapIdle /\ SearchIdle /\ MainIdle

NextFormats == ProcessPrinterFormats

SpecFormats == InitFormats /\ [][NextFormats]_vars

InitCaps == CapInit /\ TxtIdle /\ FmtIdle /\ SearchIdle /\ MainIdle

NextCaps == GetPrinterCapabilities

SpecCaps == InitCaps /\ [][NextCaps]_vars

InitSearch == SearchInit /\ TxtIdle /\ FmtIdle /\ CapIdle /\ MainIdle

NextSearch ==
    \/ SearchStart
    \/ SearchSetupFails
    \/ ItemNew
    \/ AllForNow
    \/ TimerTick
    \/ TimePasses
    \/ SearchReturn

SpecSearch == InitSearch /\ [][NextSearch]_vars

\* the loop dispatches what is due (a pending ItemNew, a due timeout source),
\* time passes, and search() goes on when run() has returned; nothing makes
\* the browser send AllForNow
SearchFairness ==
    /\ WF_delivered(ItemNew)
    /\ WF_timers(TimerTick)
    /\ WF_now(TimePasses)
    /\ WF_search_pc(SearchReturn)

SpecSearchFair == InitSearch /\ [][NextSearch]_vars /\ SearchFairness

NextSessions ==
    \/ NextSearch
    \/ SearchAgain

SpecSessions == InitSearch /\ [][NextSessions]_vars

InitMain == MainInit /\ TxtIdle /\ FmtIdle /\ CapIdle /\ SearchIdle

NextMain ==
    \/ MainCheckDeps
    \/ MainConstruct
    \/ MainGenerate

SpecMain == InitMain /\ [][NextMain]_vars

InitEmit == EmitInit /\ TxtIdle /\ FmtIdle /\ CapIdle /\ SearchIdle

NextEmit ==
    \/ CreateServiceFile
    \/ GenerateReturn

SpecEmit == InitEmit /\ [][NextEmit]_vars

NextTxt == ValidateTxtRecord

SpecTxt == InitTxt /\ [][NextTxt]_vars

---------------------------------------------------------------------------
(* C1: for every key and value, `key=value` with the returned value is at  *)
(* most 254 bytes of UTF-8, and a truncated value is valid UTF-8; for all  *)
(* keys, also those of 253 bytes or more.                                  *)
C1_EncodedWithinLimit ==
    txt_pc = "returned" =>
        /\ Len(Encode(txt_key \o <<"=">> \o txt_ret)) <= 254
        /\ _is_valid_utf8(Encode(txt_ret))

(* C2: no two records of the list search returns share (name, host, port,   *)
(* service type); of the records resolved for one such key exactly one     *)
(* survives, the one observed last.                                        *)
C2_Key(p) == <<p.name, p.host, p.port, SERVICE_TYPE>>

C2_LastWithKey(prs, k) ==
    prs[CHOOSE i \in 1..Len(prs) :
            /\ C2_Key(prs[i]) = k
            /\ \A j \in 1..Len(prs) : C2_Key(prs[j]) = k => j <= i]

C2_Deduplicated ==
    search_pc = "returned" =>
        /\ \A i, j \in 1..Len(search_ret) :
              C2_Key(search_ret[i]) = C2_Key(search_ret[j]) => i = j
        /\ \A i \in 1..Len(search_ret) :
              search_ret[i] = C2_LastWithKey(printers, C2_Key(search_ret[i]))
        /\ \A i \in 1..Len(printers) :
              \E j \in 1..Len(search_ret) : C2_Key(search_ret[j]) = C2_Key(printers[i])

\* when the loop last handled an announcement (the start of the search when
\* it handled none)
LastHandled == IF log = <<>> THEN 0 ELSE log[Len(log)].time

\* when the event source emits its last announcement
LastEmitted == CHOOSE t \in emit_times : \A u \in emit_times : u <= t

(* C3 as stated: with the source's last announcement at T and the tick     *)
(* interval I, the loop idles out no later than T + I and not before T.    *)
C3_WithinOneTick ==
    (quit_by = "idle" /\ emit_times # {}) =>
        /\ quit_time <= LastEmitted + BROWSE_TIMEOUT
        /\ quit_time >= LastEmitted

(* C3 as amended: the loop idles out at a tick that is at least I and at   *)
(* most 2 I after the last announcement it handled (after the start of the *)
(* search when it handled none); it never runs longer than that, so it has *)
(* ended by T + 2 I for a source whose last announcement is at T.          *)
C3_WithinTwoTicks ==
    /\ _main_loop = "running" => now <= LastHandled + 2 * BROWSE_TIMEOUT
    /\ quit_by # None => quit_time <= LastHandled + 2 * BROWSE_TIMEOUT
    /\ quit_by = "idle" =>
          /\ quit_time >= LastHandled + BROWSE_TIMEOUT
          /\ quit_time % BROWSE_TIMEOUT = 0
    /\ (quit_by # None /\ emit_times # {}) =>
          quit_time <= LastEmitted + 2 * BROWSE_TIMEOUT

C3_Witness ==
    /\ quit_by = "idle"
    /\ log # <<>>
    /\ LastHandled = LastEmitted
    /\ quit_time = LastHandled + 2 * BROWSE_TIMEOUT
    /\ search_pc = "returned"

(* C4: once AllForNow is handled the loop has been told to quit, whatever  *)
(* the received-an-event flag and the ticks elapsed, and nothing is added  *)
(* to the printers afterwards: search returns the list as it was then.     *)
C4_AllForNowQuits ==
    all_for_now_sent =>
        /\ _main_loop # "running"
        /\ quit_by = "all_for_now"
        /\ printers = printers_at_all_for_now
        /\ search_pc = "returned" => search_ret = printers_at_all_for_now

C4_Witness ==
    /\ all_for_now_sent
    /\ receiving_events
    /\ quit_time > BROWSE_TIMEOUT
    /\ \E t \in emit_times \ delivered : t >= quit_time
    /\ search_pc = "returned"
    /\ Len(search_ret) > 0

\* the record _handle_service_found builds for an announcement that resolves
C8_Record(ann) ==
    LET r == ann.resolution.val
    IN  PrinterService(r.r_name, r.r_host, r.r_address, r.r_port, r.r_domain,
                       _parse_txt_records(r.r_txt.strings))

C8_Appended == SelectSeq(log, LAMBDA e : e.outcome = "ok")

C8_FailureHandled ==
    /\ Len(log') = Len(log) + 1
    /\ log'[Len(log')].outcome = "DBusException"

(* C8: when ResolveService fails the handler returns, the printers list is *)
(* unchanged and the loop keeps running; the list holds a record for every *)
(* announcement that resolved, also for those after a failed one.          *)
C8_ResolveFailureNonFatal ==
    /\ [](/\ Len(printers) = Len(C8_Appended)
          /\ \A i \in 1..Len(printers) : printers[i] = C8_Record(C8_Appended[i].ann))
    /\ [][C8_FailureHandled =>
            /\ printers' = printers
            /\ _main_loop' = "running"
            /\ search_pc' = "running"]_vars

C8_Witness ==
    /\ search_pc = "returned"
    /\ \E i, j \in 1..Len(log) :
          /\ i < j
          /\ log[i].outcome = "DBusException"
          /\ log[j].outcome = "ok"
          /\ search_ret[Len(search_ret)] = C8_Record(log[j].ann)

(* C9: an announcement that resolves but whose TXT blob cannot be decoded  *)
(* still yields a record, with its resolved name, host, address and port   *)
(* and an empty txt mapping.                                               *)
C9_UndecodableTxtKept ==
    \A i \in 1..Len(log) :
        (log[i].ann.resolution.ok /\ ~log[i].ann.resolution.val.r_txt.decodable) =>
            LET r == log[i].ann.resolution.val
            IN  \E k \in 1..Len(printers) :
                    printers[k] = PrinterService(r.r_name, r.r_host, r.r_address,
                                                 r.r_port, r.r_domain, <<>>)

(* C5: main exits non-zero iff a mode was requested and the library of     *)
(* every requested mode is absent; otherwise it runs generate() and exits  *)
(* zero, also when no printer is found.                                    *)
C5_ExitStatus ==
    main_pc = "exited" =>
        (exit_code # 0 <=>
            (/\ args.cups \/ args.avahi
             /\ args.cups => ~HAS_CUPS
             /\ args.avahi => ~HAS_AVAHI))

(* C6: for every list of supported MIME types the result is the comma-      *)
(* separated list of the allow-listed types followed by the unrecognised   *)
(* types, each group in input order, with no deny-listed type.             *)
C6_Expected(supported) ==
    Join(<<",">>,
         SelectSeq(supported, LAMBDA f : f \in DOMAIN ALLOWED_DOCUMENT_TYPES)
         \o SelectSeq(supported, LAMBDA f : f \notin DOMAIN ALLOWED_DOCUMENT_TYPES
                                          /\ f \notin DOMAIN BLOCKED_DOCUMENT_TYPES))

C6_FormatNegotiation ==
    fmt_pc = "returned" =>
        fmt_ret = Ok(C6_Expected(fmt_attrs["document-format-supported"]))

(* C7: the capabilities hold only 'T' values, and a flag is present iff    *)
(* its capability is present and true: Duplex iff sides-supported contains *)
(* two-sided-long-edge, Copies iff copies-supported > 1, and Bind,         *)
(* Collate, Color, Binary iff the attribute is truthy.                     *)
C7_Has(k) == k \in DOMAIN cap_attrs

C7_CapabilityMapping ==
    cap_pc = "returned" =>
        /\ \A i \in 1..Len(cap_ret) : cap_ret[i][2] = <<"T">>
        /\ \A i, j \in 1..Len(cap_ret) : cap_ret[i][1] = cap_ret[j][1] => i = j
        /\ DictKeys(cap_ret) \subseteq {caps_mapping[i][2] : i \in 1..Len(caps_mapping)}
        /\ DictHas(cap_ret, <<"D", "u", "p", "l", "e", "x">>) <=>
              (C7_Has("sides-supported")
               /\ \E i \in 1..Len(cap_attrs["sides-supported"]) :
                     cap_attrs["sides-supported"][i] = "two-sided-long-edge")
        /\ DictHas(cap_ret, <<"C", "o", "p", "i", "e", "s">>) <=>
              (C7_Has("copies-supported") /\ cap_attrs["copies-supported"] > 1)
        /\ DictHas(cap_ret, <<"B", "i", "n", "d">>) <=>
              (C7_Has("printer-bindings-supported")
               /\ Len(cap_attrs["printer-bindings-supported"]) > 0)
        /\ DictHas(cap_ret, <<"C", "o", "l", "l", "a", "t", "e">>) <=>
              (C7_Has("collate-supported") /\ cap_attrs["collate-supported"])
        /\ DictHas(cap_ret, <<"C", "o", "l", "o", "r">>) <=>
              (C7_Has("color-supported") /\ cap_attrs["color-supported"])
        /\ DictHas(cap_ret, <<"B", "i", "n", "a", "r", "y">>) <=>
              (C7_Has("printer-binary-ok-supported")
               /\ cap_attrs["printer-binary-ok-supported"])

C7_Witness ==
    /\ cap_pc = "returned"
    /\ C7_Has("sides-supported")
    /\ InList("two-sided-long-edge", cap_attrs["sides-supported"])
    /\ C7_Has("copies-supported")
    /\ cap_attrs["copies-supported"] = 1
    /\ C7_Has("color-supported")
    /\ ~cap_attrs["color-supported"]
    /\ cap_ret = <<<<<<"D", "u", "p", "l", "e", "x">>, <<"T">>>>>>

\* whether the file holds a TXT record of key adminurl
C10_HasAdminUrl(content) ==
    \E i \in 1..Len(content.txt_record) :
        LET t == content.txt_record[i]
        IN  Len(t) >= 9 /\ SubSeq(t, 1, 9) = <<"a", "d", "m", "i", "n", "u", "r", "l", "=">>

(* C10: with one shared CUPS printer Office (PDF and raster formats,       *)
(* duplex) and the admin-URL flag off, the run completes and writes        *)
(* exactly one file, <prefix>CUPS-Office.service, whose port is the        *)
(* printer's and which holds no adminurl TXT record; no file holds one     *)
(* unless the flag is set.                                                 *)
C10_OfficeEndToEnd ==
    /\ (/\ main_pc = "exited"
        /\ args.cups /\ HAS_CUPS /\ ~args.avahi /\ ~args.adminurl
        /\ cups_server = <<Office>>) =>
            /\ exit_code = 0
            /\ Len(files) = 1
            /\ files[1][1] = <<"A", "i", "r", "P", "r", "i", "n", "t", "-", "C", "U", "P", "S", "-", "O", "f", "f", "i", "c", "e", ".", "s", "e", "r", "v", "i", "c", "e">>
            /\ files[1][2].port = <<"6", "3", "1">>
            /\ ~C10_HasAdminUrl(files[1][2])
    /\ main_pc = "exited" =>
          \A i \in 1..Len(files) : C10_HasAdminUrl(files[i][2]) => args.adminurl

---------------------------------------------------------------------------
(* C11: when the loop of generate() is through, every record of the        *)
(* concatenated collector results was emitted exactly once, and two        *)
(* distinct records were never written to the same file name, so that      *)
(* there are as many files as distinct records.                            *)

C11_DistinctRecords == {collected[i] : i \in 1..Len(collected)}

---------------------------------------------------------------------------
(* C12: every handled announcement leaves the received-an-event flag set,  *)
(* whatever its resolution gave.  A tick that finds the flag clear tells   *)
(* the loop to quit and removes its timer; a tick that finds the flag set  *)
(* clears it, leaves the loop running and its timer armed for the next     *)
(* interval.  No tick changes the printers list.                           *)

C12_TickEffect ==
    /\ printers' = printers
    /\ search_ret' = search_ret
    /\ IF ~receiving_events
       THEN /\ _main_loop' = "quit"
            /\ receiving_events' = FALSE
            /\ timers' \subseteq timers
            /\ Cardinality(timers') = Cardinality(timers) - 1
       ELSE /\ _main_loop' = "running"
            /\ receiving_events' = FALSE
            /\ Cardinality(timers') = Cardinality(timers)
            /\ \A source \in timers' : source.due > now
            /\ \E source \in timers' : source.due = now + BROWSE_TIMEOUT

C12_TimerTickStep ==
    /\ [][ItemNew => receiving_events' = TRUE]_vars
    /\ [][TimerTick => C12_TickEffect]_vars

\* an announcement that failed to resolve kept the loop over the first tick:
\* that tick cleared the flag, the second one told the loop to quit, and the
\* list is still empty
C12_Witness ==
    /\ Len(log) = 1
    /\ log[1].outcome = "DBusException"
    /\ log[1].time < BROWSE_TIMEOUT
    /\ quit_by = "idle"
    /\ quit_time = 2 * BROWSE_TIMEOUT
    /\ timers = {}
    /\ ~receiving_events
    /\ printers = <<>>

---------------------------------------------------------------------------
(* C13: the event source emits finitely many announcements; when the loop  *)
(* dispatches what is due, a search that entered its event loop leaves it  *)
(* and returns, also when AllForNow never arrives.  And the loop is told   *)
(* to quit only by AllForNow or by a tick that follows a whole tick        *)
(* interval in which no announcement was handled: while an announcement    *)
(* comes in every interval and no AllForNow, the loop goes on.             *)

C13_QuitOnlyWhenIdle ==
    quit_by # None =>
        \/ quit_by = "all_for_now"
        \/ /\ quit_by = "idle"
           /\ quit_time >= BROWSE_TIMEOUT
           /\ \A k \in 1..Len(log) : log[k].time <= quit_time - BROWSE_TIMEOUT
           /\ \A k \in 1..Len(log) : log[k].time > 0 \/ quit_time > BROWSE_TIMEOUT

C13_SearchTerminates ==
    /\ (search_pc = "running") ~> (search_pc = "returned")
    /\ []C13_QuitOnlyWhenIdle

\* no AllForNow came; announcements in the first and the second tick interval
\* kept the loop running over two ticks, it idled out at the third tick and
\* search() returned both records
C13_Witness ==
    /\ search_pc = "returned"
    /\ ~all_for_now_sent
    /\ quit_by = "idle"
    /\ Len(log) = 2
    /\ log[1].time = 1
    /\ log[2].time = 2 * BROWSE_TIMEOUT - 1
    /\ quit_time = 3 * BROWSE_TIMEOUT
    /\ Len(search_ret) = 2

---------------------------------------------------------------------------
(* C14: every call of search() on a finder is a session of its own.  The   *)
(* list a call returns holds the records of the announcements that were    *)
(* resolved during that call, and no others; and what an earlier call left *)
(* behind does not move the end of the call: it idles out at one of its    *)
(* own ticks, a whole number of intervals after its start, and at its      *)
(* first tick when no announcement came.                                   *)

\* the announcements resolved during the call under way
C14_ResolvedInCall == SelectSeq(log, LAMBDA e : e.outcome = "ok")

C14_SessionIsolation ==
    /\ search_pc = "returned" =>
          /\ Len(search_ret) = Len(C14_ResolvedInCall)
          /\ \A i \in 1..Len(search_ret) :
                search_ret[i] = C8_Record(C14_ResolvedInCall[i].ann)
    /\ quit_by = "idle" =>
          /\ quit_time >= started + BROWSE_TIMEOUT
          /\ (quit_time - started) % BROWSE_TIMEOUT = 0
          /\ log = <<>> => quit_time = started + BROWSE_TIMEOUT

===========================================================================
